---- MODULE Spec2Model ----
(***************************************************************************)
(* Model of app.py, the Smari DX annual survey plot generator: the login   *)
(* gate, the indexer (build_id_map), the table locator and reconstructor   *)
(* (extract_table) and the column resolver (get_col).                      *)
(*                                                                         *)
(* JSON values are records of one shape, [k, n, s, items]:                 *)
(*   k = "null" | "int" | "str" | "list" | "dict" | "nan"                  *)
(*   n      the number of an "int"                                         *)
(*   s      the characters of a "str", a tuple of one-character strings    *)
(*   items  the elements of a "list", or the [key, val] pairs of a "dict"  *)
(*          in insertion order (the order Python iterates a dict in)       *)
(* Python's None is the JSON null.  "nan" is pandas' missing cell.         *)
(***************************************************************************)
EXTENDS Integers, Sequences, FiniteSets, TLC

VARIABLES authenticated, page, pwd, login_clicked, report_id, calls, pc,
          raw_json, id_map, table_vid_str, table_node, out, dfs,
          columns, substring, col

vars == <<authenticated, page, pwd, login_clicked, report_id, calls, pc,
          raw_json, id_map, table_vid_str, table_node, out, dfs,
          columns, substring, col>>

session == <<authenticated, page, pwd, login_clicked, report_id>>

resolver == <<columns, substring, col>>

----------------------------------------------------------------------------
(* JSON / Python values *)

JNull == [k |-> "null", n |-> 0, s |-> <<>>, items |-> <<>>]

JInt(i) == [k |-> "int", n |-> i, s |-> <<>>, items |-> <<>>]

JStr(cs) == [k |-> "str", n |-> 0, s |-> cs, items |-> <<>>]

JList(xs) == [k |-> "list", n |-> 0, s |-> <<>>, items |-> xs]

JDict(kvs) == [k |-> "dict", n |-> 0, s |-> <<>>, items |-> kvs]

NaN == [k |-> "nan", n |-> 0, s |-> <<>>, items |-> <<>>]

KV(key, val) == [key |-> key, val |-> val]

DigitChar == <<"0", "1", "2", "3", "4", "5", "6", "7", "8", "9">>

RECURSIVE Digits(_)
Digits(i) ==
  IF i < 10 THEN <<DigitChar[i + 1]>>
  ELSE Digits(i \div 10) \o <<DigitChar[(i % 10) + 1]>>

NoneStr == <<"N", "o", "n", "e">>

(* str(v) for the scalars a report uses as identifiers; a container's repr *)
(* is not modelled, and no input of the model puts one in an identifier.   *)
py_str(v) ==
  CASE v.k = "null" -> NoneStr
    [] v.k = "str" -> v.s
    [] v.k = "int" -> IF v.n < 0 THEN <<"-">> \o Digits(-v.n) ELSE Digits(v.n)

(* bool(v): the truth value Python's `if v` and `v or w` test. *)
Truthy(v) ==
  CASE v.k = "null" -> FALSE
    [] v.k = "nan" -> TRUE
    [] v.k = "int" -> v.n # 0
    [] v.k = "str" -> v.s # <<>>
    [] v.k = "list" -> v.items # <<>>
    [] v.k = "dict" -> v.items # <<>>

(* key in obj *)
HasKey(obj, key) == \E j \in 1..Len(obj.items) : obj.items[j].key = key

(* obj.get(key, default) *)
GetOr(obj, key, default) ==
  IF HasKey(obj, key)
  THEN obj.items[CHOOSE j \in 1..Len(obj.items) : obj.items[j].key = key].val
  ELSE default

(* obj.get(key) *)
Get(obj, key) == GetOr(obj, key, JNull)

(* obj.values(), in insertion order *)
Values(obj) == [j \in 1..Len(obj.items) |-> obj.items[j].val]

(* TLC evaluates an operator's argument when it is first used.  A loop    *)
(* that threads an accumulator tests Evaluated(acc) before its next step,  *)
(* so that the accumulator is a value and not a chain of pending steps.    *)
Evaluated(v) == v = v

(* A Python dict keyed by strings, as a function; d[key] = val *)
EmptyMap == [x \in {} |-> JNull]

Put(m, key, val) ==
  [x \in DOMAIN m \cup {key} |-> IF x = key THEN val ELSE m[x]]

(* m.get(key) *)
MapGet(m, key) == IF key \in DOMAIN m THEN m[key] ELSE JNull

----------------------------------------------------------------------------
(* build_id_map *)

(* Variant: setdefault, the first record of an id is kept. *)
RECURSIVE index_first(_, _), index_first_each(_, _)
index_first(obj, m) ==
  IF obj.k = "dict"
  THEN index_first_each(Values(obj),
         IF HasKey(obj, "id") /\ py_str(Get(obj, "id")) \notin DOMAIN m
         THEN Put(m, py_str(Get(obj, "id")), obj) ELSE m)
  ELSE IF obj.k = "list" THEN index_first_each(obj.items, m)
  ELSE m

index_first_each(xs, m) ==
  IF xs = <<>> THEN m
  ELSE LET m1 == index_first(Head(xs), m)
       IN IF Evaluated(m1) THEN index_first_each(Tail(xs), m1) ELSE m1

RECURSIVE index(_, _), index_each(_, _)
index(obj, m) ==
  IF obj.k = "dict"
  THEN index_each(Values(obj),
         IF HasKey(obj, "id") THEN Put(m, py_str(Get(obj, "id")), obj) ELSE m)
  ELSE IF obj.k = "list" THEN index_each(obj.items, m)
  ELSE m

(* the two for loops of index: each value, in order, into the same map *)
index_each(xs, m) ==
  IF xs = <<>> THEN m
  ELSE LET m1 == index(Head(xs), m)
       IN IF Evaluated(m1) THEN index_each(Tail(xs), m1) ELSE m1

build_id_map(json) == index(json, EmptyMap)

----------------------------------------------------------------------------
(* extract_table.find_t *)

(* Variant: without the `vid is not None` test. *)
RECURSIVE find_t_anyvid(_, _), find_in_anyvid(_, _)
find_t_anyvid(obj, t) ==
  IF obj.k = "dict"
  THEN IF HasKey(obj, "variableId") /\ py_str(Get(obj, "variableId")) = t
       THEN obj
       ELSE find_in_anyvid(Values(obj), t)
  ELSE IF obj.k = "list" THEN find_in_anyvid(obj.items, t)
  ELSE JNull

find_in_anyvid(xs, t) ==
  IF xs = <<>> THEN JNull
  ELSE LET r == find_t_anyvid(Head(xs), t)
       IN IF Truthy(r) THEN r ELSE find_in_anyvid(Tail(xs), t)

RECURSIVE find_t(_, _), find_in(_, _)
find_t(obj, t) ==
  IF obj.k = "dict"
  THEN LET vid == Get(obj, "variableId")
       IN IF vid # JNull /\ py_str(vid) = t
          THEN obj
          ELSE find_in(Values(obj), t)
  ELSE IF obj.k = "list" THEN find_in(obj.items, t)
  ELSE JNull

(* the two for loops of find_t: the first truthy result is returned *)
find_in(xs, t) ==
  IF xs = <<>> THEN JNull
  ELSE LET r == find_t(Head(xs), t)
       IN IF Truthy(r) THEN r ELSE find_in(Tail(xs), t)

----------------------------------------------------------------------------
(* extract_table: the reconstructor *)

Range(f) == {f[j] : j \in DOMAIN f}

(* cvs = table_node.get('childValues', []) *)
cvs_of(node) == GetOr(node, "childValues", JList(<<>>))

(* What `for cv in cvs` yields: a list's items, a dict's keys, a string's  *)
(* characters.  A number or None is not iterable.                          *)
Iterable(v) == v.k \in {"list", "dict", "str"}

IterItems(v) ==
  CASE v.k = "list" -> v.items
    [] v.k = "dict" -> [j \in 1..Len(v.items) |-> JStr(<<v.items[j].key>>)]
    [] v.k = "str" -> [j \in 1..Len(v.s) |-> JStr(<<v.s[j]>>)]

(* str(cv.get('variableId')) *)
vid_str_of(cv) == py_str(Get(cv, "variableId"))

(* lines 80-83: the distinct identifiers, in first-occurrence order *)
RECURSIVE unique_vids_from(_, _)
unique_vids_from(cvs, acc) ==
  IF cvs = <<>> \/ ~Evaluated(acc) THEN acc
  ELSE unique_vids_from(Tail(cvs),
         IF vid_str_of(Head(cvs)) \notin Range(acc) /\ vid_str_of(Head(cvs)) # NoneStr
         THEN Append(acc, vid_str_of(Head(cvs)))
         ELSE acc)

unique_vids_of(cvs) == unique_vids_from(cvs, <<>>)

(* occ = [cv for cv in cvs if str(cv.get('variableId')) == vid] *)
occ(cvs, vid) == SelectSeq(cvs, LAMBDA cv : vid_str_of(cv) = vid)

(* Variant: the row count taken as the largest occurrence count. *)
num_rows_max(cvs, unique_vids) ==
  CHOOSE m \in 0..Len(cvs) :
    /\ \E j \in 1..Len(unique_vids) : Len(occ(cvs, unique_vids[j])) = m
    /\ \A j \in 1..Len(unique_vids) : Len(occ(cvs, unique_vids[j])) <= m

(* line 86 *)
num_rows(cvs, unique_vids) ==
  Cardinality({j \in 1..Len(cvs) : vid_str_of(cvs[j]) = unique_vids[1]})

(* row_data[key] = val: an existing key keeps its place *)
DictSet(kvs, key, val) ==
  IF \E j \in 1..Len(kvs) : kvs[j].key = key
  THEN [j \in 1..Len(kvs) |-> IF kvs[j].key = key THEN KV(key, val) ELSE kvs[j]]
  ELSE Append(kvs, KV(key, val))

(* lines 91-95 for one row i (0-based) *)
RECURSIVE row_data_from(_, _, _, _, _)
row_data_from(cvs, idm, vids, i, row_data) ==
  IF vids = <<>> \/ ~Evaluated(row_data) THEN row_data
  ELSE LET vid == Head(vids)
           o == occ(cvs, vid)
           node == IF i < Len(o) THEN MapGet(idm, py_str(Get(o[i + 1], "valueId")))
                   ELSE JNull
           name == IF Truthy(Get(node, "variableName"))
                   THEN Get(node, "variableName") ELSE JStr(vid)
       IN row_data_from(cvs, idm, Tail(vids), i,
            IF i < Len(o) /\ Truthy(node)
            THEN DictSet(row_data, name, Get(node, "value"))
            ELSE row_data)

(* lines 88-96: rows *)
rows_of(cvs, idm) ==
  LET unique_vids == unique_vids_of(cvs)
  IN [r \in 1..num_rows(cvs, unique_vids) |->
        row_data_from(cvs, idm, unique_vids, r - 1, <<>>)]

----------------------------------------------------------------------------
(* pandas: DataFrame(rows) and apply(pd.to_numeric, errors='ignore') *)

EmptyFrame == [columns |-> <<>>, data |-> <<>>]

(* the columns of DataFrame(rows): the keys in order of first appearance *)
RECURSIVE keys_union(_, _)
keys_union(kvs, acc) ==
  IF kvs = <<>> \/ ~Evaluated(acc) THEN acc
  ELSE keys_union(Tail(kvs),
         IF Head(kvs).key \in Range(acc) THEN acc ELSE Append(acc, Head(kvs).key))

RECURSIVE frame_columns(_, _)
frame_columns(rows, acc) ==
  IF rows = <<>> \/ ~Evaluated(acc) THEN acc
  ELSE frame_columns(Tail(rows), keys_union(Head(rows), acc))

RowGet(row, key) ==
  IF \E j \in 1..Len(row) : row[j].key = key
  THEN row[CHOOSE j \in 1..Len(row) : row[j].key = key].val
  ELSE NaN

(* pd.DataFrame(rows): a key a row lacks is a missing cell *)
DataFrame(rows) ==
  LET cols == frame_columns(rows, <<>>)
  IN [columns |-> cols,
      data |-> [r \in 1..Len(rows) |->
                  [c \in 1..Len(cols) |-> RowGet(rows[r], cols[c])]]]

IsDigit(c) == \E d \in 1..10 : DigitChar[d] = c

IsNumeral(s) ==
  LET body == IF s # <<>> /\ s[1] = "-" THEN Tail(s) ELSE s
  IN body # <<>> /\ \A j \in 1..Len(body) : IsDigit(body[j])

RECURSIVE ParseNat(_)
ParseNat(s) ==
  IF s = <<>> THEN 0
  ELSE 10 * ParseNat(SubSeq(s, 1, Len(s) - 1))
       + (CHOOSE d \in 0..9 : DigitChar[d + 1] = s[Len(s)])

ParseInt(s) == IF s[1] = "-" THEN 0 - ParseNat(Tail(s)) ELSE ParseNat(s)

(* a cell to_numeric can convert: a number, a numeral, or a missing value *)
Parses(v) == v.k \in {"int", "nan", "null"} \/ (v.k = "str" /\ IsNumeral(v.s))

Numeric(v) ==
  CASE v.k = "int" -> v
    [] v.k = "str" -> JInt(ParseInt(v.s))
    [] v.k \in {"nan", "null"} -> NaN

(* Variant: errors='coerce', a cell that does not parse becomes missing. *)
to_numeric_coerce(cells) ==
  [r \in 1..Len(cells) |-> IF Parses(cells[r]) THEN Numeric(cells[r]) ELSE NaN]

(* pd.to_numeric(column, errors='ignore'): the column converted, or, when  *)
(* one cell does not parse, the column as it was                           *)
to_numeric(cells) ==
  IF \A r \in 1..Len(cells) : Parses(cells[r])
  THEN [r \in 1..Len(cells) |-> Numeric(cells[r])]
  ELSE cells

Column(df, c) == [r \in 1..Len(df.data) |-> df.data[r][c]]

(* df.apply(pd.to_numeric, errors='ignore'): column by column *)
apply_to_numeric(df) ==
  [columns |-> df.columns,
   data |-> [r \in 1..Len(df.data) |->
               [c \in 1..Len(df.columns) |-> to_numeric(Column(df, c))[r]]]]

----------------------------------------------------------------------------
(* extract_table as a whole: exc is the exception it raises ("none" when   *)
(* it returns), rows the local list of row mappings, df the value returned *)

extract_exc(json, t) ==
  LET node == find_t(json, t)
      cvs == cvs_of(node)
  IN IF ~Truthy(node) THEN "none"
     ELSE IF ~Iterable(cvs) THEN "TypeError"
     ELSE IF \E j \in 1..Len(IterItems(cvs)) : IterItems(cvs)[j].k # "dict"
          THEN "AttributeError"
     ELSE "none"

extract_table(json, idm, t) ==
  LET node == find_t(json, t)
      cvs == IterItems(cvs_of(node))
  IN IF ~Truthy(node) THEN [exc |-> "none", rows |-> <<>>, df |-> EmptyFrame]
     ELSE IF extract_exc(json, t) # "none"
          THEN [exc |-> extract_exc(json, t), rows |-> <<>>, df |-> EmptyFrame]
     ELSE IF unique_vids_of(cvs) = <<>>
          THEN [exc |-> "none", rows |-> <<>>, df |-> EmptyFrame]
     ELSE [exc |-> "none",
           rows |-> rows_of(cvs, idm),
           df |-> apply_to_numeric(DataFrame(rows_of(cvs, idm)))]

----------------------------------------------------------------------------
(* Configuration, lines 29-32 *)

TABLE_IDS ==
  [SFS_KV |-> <<"2", "0", "2", "5", "4">>, LFS_KV |-> <<"5", "5", "6", "4", "7">>,
   SFS_LIN |-> <<"5", "4", "9", "3", "6">>, LFS_LIN |-> <<"5", "5", "6", "6", "5">>]

TableNames == DOMAIN TABLE_IDS

----------------------------------------------------------------------------
(* Inputs of the indexer and the locator: every labelling of a few tree    *)
(* shapes with records that carry, or lack, id and variableId.             *)

IndexLabels ==
  { <<>>,
    <<KV("id", JInt(1))>>,
    <<KV("id", JStr(<<"1">>))>>,
    <<KV("id", JInt(2)), KV("variableId", JInt(7))>>,
    <<KV("variableId", JStr(<<"7">>))>>,
    <<KV("id", JNull), KV("variableId", JNull)>>,
    <<KV("variableId", JStr(NoneStr)), KV("id", JInt(1))>>,
    <<KV("id", JStr(NoneStr))>> }

IndexShapes(l0, l1, l2) ==
  { JDict(l0 \o <<KV("a", JDict(l1 \o <<KV("a", JDict(l2))>>))>>),
    JDict(l0 \o <<KV("a", JDict(l1)), KV("b", JDict(l2))>>),
    JDict(<<KV("a", JDict(l1))>> \o l0 \o <<KV("b", JList(<<JInt(5), JDict(l2)>>))>>),
    JList(<<JDict(l1 \o <<KV("a", JDict(l0))>>), JNull, JDict(l2)>>),
    JDict(l0 \o <<KV("a", JList(<<JList(<<JDict(l1)>>), JStr(<<"x">>), JDict(l2)>>))>>) }

IndexPayloads ==
  UNION { IndexShapes(l0, l1, l2) : l0 \in IndexLabels, l1 \in IndexLabels, l2 \in IndexLabels }
    \cup { JNull, JInt(5), JList(<<>>), JDict(<<>>) }

IndexTableIds == { <<"7">>, NoneStr, <<"9">> }

NoOut == [exc |-> "none", rows |-> <<>>, df |-> EmptyFrame]

(* A session past the login gate in which nothing was fetched yet. *)
Idle ==
  /\ authenticated = TRUE
  /\ page = "main"
  /\ pwd = ""
  /\ login_clicked = FALSE
  /\ report_id = ""
  /\ calls = 1
  /\ id_map = EmptyMap
  /\ table_vid_str = <<>>
  /\ table_node = JNull
  /\ out = NoOut
  /\ dfs = EmptyMap
  /\ columns = <<>>
  /\ substring = <<>>
  /\ col = JNull

(* line 124 *)
BuildIdMap ==
  /\ pc = "fetched"
  /\ id_map' = build_id_map(raw_json)
  /\ pc' = "indexed"
  /\ UNCHANGED <<session, calls, resolver, raw_json, table_vid_str, table_node, out, dfs>>

(* line 76 *)
Locate(t) ==
  /\ pc = "indexed"
  /\ table_vid_str' = t
  /\ table_node' = find_t(raw_json, t)
  /\ pc' = "located"
  /\ UNCHANGED <<session, calls, resolver, raw_json, id_map, out, dfs>>

InitIndex ==
  /\ Idle
  /\ pc = "fetched"
  /\ raw_json \in IndexPayloads

NextIndex ==
  \/ BuildIdMap
  \/ \E t \in IndexTableIds : Locate(t)

SpecIndex == InitIndex /\ [][NextIndex]_vars

(* the records of a payload in the order the traversals visit them: a      *)
(* record before its nested values, values and list items in order         *)
RECURSIVE PreOrder(_), PreOrderEach(_)
PreOrder(obj) ==
  IF obj.k = "dict" THEN <<obj>> \o PreOrderEach(Values(obj))
  ELSE IF obj.k = "list" THEN PreOrderEach(obj.items)
  ELSE <<>>

PreOrderEach(xs) ==
  IF xs = <<>> THEN <<>> ELSE PreOrder(Head(xs)) \o PreOrderEach(Tail(xs))

WithId(json) == SelectSeq(PreOrder(json), LAMBDA r : HasKey(r, "id"))

LastWithKey(recs, key) ==
  recs[CHOOSE j \in 1..Len(recs) :
         /\ py_str(Get(recs[j], "id")) = key
         /\ \A h \in (j + 1)..Len(recs) : py_str(Get(recs[h], "id")) # key]

(* C1: the keys of build_id_map's result are exactly str(r.id) of the      *)
(* reachable records r that carry an id, and each key maps to the record   *)
(* with that id that the traversal visits last.                            *)
C1_IndexExact ==
  pc \in {"indexed", "located"} =>
    /\ DOMAIN id_map = {py_str(Get(r, "id")) : r \in Range(WithId(raw_json))}
    /\ \A key \in DOMAIN id_map : id_map[key] = LastWithKey(WithId(raw_json), key)

(* an index built from a payload in which two records share an id, the     *)
(* later one is kept, and a record without id is reachable                 *)
C1_Witness ==
  /\ pc = "indexed"
  /\ \E a, b \in 1..Len(WithId(raw_json)) :
       /\ a < b
       /\ py_str(Get(WithId(raw_json)[a], "id")) = py_str(Get(WithId(raw_json)[b], "id"))
       /\ WithId(raw_json)[a] # WithId(raw_json)[b]
       /\ id_map[py_str(Get(WithId(raw_json)[b], "id"))] # WithId(raw_json)[a]
  /\ \E r \in Range(PreOrder(raw_json)) : ~HasKey(r, "id")

Matches(json, t) ==
  SelectSeq(PreOrder(json),
            LAMBDA r : Get(r, "variableId") # JNull /\ py_str(Get(r, "variableId")) = t)

(* C2: the table node is the pre-order-first record whose variableId is    *)
(* present (not None) and whose str equals the table identifier, and None  *)
(* (NotFound) when there is no such record.                                *)
C2_FirstMatch ==
  pc = "located" =>
    IF Matches(raw_json, table_vid_str) = <<>>
    THEN table_node = JNull
    ELSE table_node = Matches(raw_json, table_vid_str)[1]

(* two different records match and the first is the one located *)
C2_Witness ==
  /\ pc = "located"
  /\ Len(Matches(raw_json, table_vid_str)) >= 2
  /\ Matches(raw_json, table_vid_str)[1] # Matches(raw_json, table_vid_str)[2]
  /\ table_node = Matches(raw_json, table_vid_str)[1]

----------------------------------------------------------------------------
(* Inputs of the reconstructor: a report with a list of value nodes and    *)
(* one table (variableId 20254) whose childValues tag each entry with one  *)
(* of two variable identifiers, 7 and "B", or with none.  Entry j refers   *)
(* to value node j.                                                        *)

MaxCVs == 5

Tags == {"c1", "c2", "none"}

TagSeqs == UNION { [1..n -> Tags] : n \in 0..MaxCVs }

TagVid(tag) ==
  CASE tag = "c1" -> <<KV("variableId", JInt(7))>>
    [] tag = "c2" -> <<KV("variableId", JStr(<<"B">>))>>
    [] tag = "none" -> <<>>

(* how the value nodes are named, what they hold, how entries refer to them *)
Variants ==
  { [names |-> "clean", vals |-> "numstr", refs |-> "own"],
    [names |-> "clean", vals |-> "mixed", refs |-> "own"],
    [names |-> "clean", vals |-> "int", refs |-> "strref"],
    [names |-> "same_name", vals |-> "numstr", refs |-> "own"],
    [names |-> "raw_clash", vals |-> "mixed", refs |-> "own"],
    [names |-> "empty_name", vals |-> "numstr", refs |-> "dangling"],
    [names |-> "clean", vals |-> "numstr", refs |-> "novalueid"],
    [names |-> "same_name", vals |-> "int", refs |-> "dangling"] }

Named(cs) == <<KV("variableName", JStr(cs))>>

NameOf(names, tag) ==
  CASE names = "clean" ->
         (CASE tag = "c1" -> Named(<<"A">>) [] tag = "c2" -> <<>> [] tag = "none" -> Named(<<"Z">>))
    [] names = "same_name" -> Named(<<"A">>)
    [] names = "raw_clash" ->
         (CASE tag = "c1" -> Named(<<"B">>) [] tag = "c2" -> <<>> [] tag = "none" -> Named(<<"Z">>))
    [] names = "empty_name" ->
         (CASE tag = "c1" -> Named(<<>>)
            [] tag = "c2" -> <<KV("variableName", JNull)>>
            [] tag = "none" -> <<>>)

ValOf(vals, j) ==
  CASE vals = "numstr" -> JStr(Digits(10 * j))
    [] vals = "mixed" -> IF j = 2 THEN JStr(<<"n", "/", "a">>) ELSE JStr(Digits(10 * j))
    [] vals = "int" -> IF j = 4 THEN JNull ELSE JInt(80 + j)

RefOf(refs, j) ==
  CASE refs = "own" -> <<KV("valueId", JInt(j))>>
    [] refs = "strref" -> <<KV("valueId", JStr(Digits(j)))>>
    [] refs = "dangling" -> <<KV("valueId", JInt(IF j = 2 THEN 99 ELSE j))>>
    [] refs = "novalueid" -> IF j = 1 THEN <<>> ELSE <<KV("valueId", JInt(j))>>

ValueNode(j, tag, v) ==
  JDict(<<KV("id", JInt(j))>> \o NameOf(v.names, tag) \o <<KV("value", ValOf(v.vals, j))>>)

Entry(j, tag, v) == JDict(TagVid(tag) \o RefOf(v.refs, j))

Report(data, table) ==
  JDict(<<KV("data", JList(data)),
          KV("report", JDict(<<KV("id", JInt(100)), KV("tables", JList(<<table>>))>>))>>)

TableHead == <<KV("id", JInt(200)), KV("variableId", JInt(20254))>>

TablePayload(tags, v) ==
  Report([j \in 1..Len(tags) |-> ValueNode(j, tags[j], v)],
         JDict(TableHead \o
               <<KV("childValues", JList([j \in 1..Len(tags) |-> Entry(j, tags[j], v)]))>>))

(* shapes of childValues a well-formed report does not have *)
OddChildValues ==
  { JNull, JInt(3), JStr(<<"x", "y">>), JStr(<<>>), JDict(<<>>),
    JDict(<<KV("a", JInt(1))>>), JList(<<JInt(1)>>), JList(<<JNull>>),
    JList(<<JList(<<>>)>>),
    JList(<<JDict(<<KV("variableId", JInt(7)), KV("valueId", JInt(1))>>), JStr(<<"x">>)>>) }

OddPayloads ==
  { Report(<<ValueNode(1, "c1", [names |-> "clean", vals |-> "numstr", refs |-> "own"])>>,
           JDict(TableHead \o <<KV("childValues", c)>>)) : c \in OddChildValues }
    \cup { Report(<<>>, JDict(TableHead)) }

TablePayloads ==
  { TablePayload(tags, v) : tags \in TagSeqs, v \in Variants } \cup OddPayloads

(* lines 126-129, one call: extract_table(raw_json, id_map, t) *)
ExtractTable(t) ==
  /\ pc = "indexed"
  /\ table_vid_str' = t
  /\ table_node' = find_t(raw_json, t)
  /\ out' = extract_table(raw_json, id_map, t)
  /\ pc' = "extracted"
  /\ UNCHANGED <<session, calls, resolver, raw_json, id_map, dfs>>

InitTable ==
  /\ Idle
  /\ pc = "fetched"
  /\ raw_json \in TablePayloads

NextTable ==
  \/ BuildIdMap
  \/ \E name \in TableNames : ExtractTable(TABLE_IDS[name])

SpecTable == InitTable /\ [][NextTable]_vars

----------------------------------------------------------------------------
(* Properties of the reconstructor, stated on the located table node, the  *)
(* index and the result, without the operators that model lines 79-96.     *)

Returned == pc = "extracted" /\ out.exc = "none"

(* the childValues entries of the located node, when it returned *)
Entries ==
  IF table_node = JNull \/ ~HasKey(table_node, "childValues") THEN <<>>
  ELSE IterItems(Get(table_node, "childValues"))

EntryVid(j) == py_str(Get(Entries[j], "variableId"))

VidSet == {EntryVid(j) : j \in 1..Len(Entries)} \ {NoneStr}

FirstVid == EntryVid(CHOOSE j \in 1..Len(Entries) :
                       /\ EntryVid(j) # NoneStr
                       /\ \A h \in 1..(j - 1) : EntryVid(h) = NoneStr)

Count(v) == Cardinality({j \in 1..Len(Entries) : EntryVid(j) = v})

(* the i-th (1-based) entry tagged v, in document order *)
NthEntry(v, i) ==
  Entries[CHOOSE j \in 1..Len(Entries) :
            /\ EntryVid(j) = v
            /\ Cardinality({h \in 1..j : EntryVid(h) = v}) = i]

Resolves(v, i) ==
  i <= Count(v) /\ py_str(Get(NthEntry(v, i), "valueId")) \in DOMAIN id_map

NodeOf(v, i) == id_map[py_str(Get(NthEntry(v, i), "valueId"))]

NonEmpty(name) == name.k = "str" /\ name.s # <<>>

ColumnName(v, i) ==
  IF NonEmpty(Get(NodeOf(v, i), "variableName"))
  THEN Get(NodeOf(v, i), "variableName") ELSE JStr(v)

RowKeys(row) == {row[j].key : j \in 1..Len(row)}

(* C3: the dataset has as many rows as there are childValues entries whose *)
(* identifier equals the first distinct identifier ('None' excluded), and  *)
(* is empty (no rows, no columns) when no table or no identifier is found. *)
C3_RowCount ==
  Returned =>
    IF VidSet = {}
    THEN out.df.data = <<>> /\ out.df.columns = <<>>
    ELSE Len(out.df.data) = Count(FirstVid)

(* a table whose first identifier occurs twice or more and less often than *)
(* another identifier                                                      *)
C3_Witness ==
  /\ Returned
  /\ VidSet # {}
  /\ Count(FirstVid) >= 2
  /\ \E v \in VidSet : Count(v) > Count(FirstVid)
  /\ Len(out.df.data) = Count(FirstVid)

(* C4: in row i every identifier v that resolves at i maps its column name *)
(* to the referenced node's value, and every key of the row comes from an  *)
(* identifier that resolves at i.                                          *)
C4_Positional ==
  Returned =>
    \A i \in 1..Len(out.rows) :
      /\ \A v \in VidSet :
           Resolves(v, i) =>
             /\ ColumnName(v, i) \in RowKeys(out.rows[i])
             /\ RowGet(out.rows[i], ColumnName(v, i)) = Get(NodeOf(v, i), "value")
      /\ \A key \in RowKeys(out.rows[i]) :
           \E v \in VidSet : Resolves(v, i) /\ ColumnName(v, i) = key

(* what C4 says holds of every row in which no two identifiers resolve to  *)
(* the same column name                                                    *)
C4_WithoutCollision ==
  Returned =>
    \A i \in 1..Len(out.rows) :
      (\A v, w \in VidSet :
         Resolves(v, i) /\ Resolves(w, i) /\ v # w => ColumnName(v, i) # ColumnName(w, i))
      => /\ \A v \in VidSet :
              Resolves(v, i) =>
                /\ ColumnName(v, i) \in RowKeys(out.rows[i])
                /\ RowGet(out.rows[i], ColumnName(v, i)) = Get(NodeOf(v, i), "value")
         /\ \A key \in RowKeys(out.rows[i]) :
              \E v \in VidSet : Resolves(v, i) /\ ColumnName(v, i) = key

(* C5: a row has one key per identifier that resolved at it. *)
C5_NoCollision ==
  Returned =>
    \A i \in 1..Len(out.rows) :
      Cardinality(RowKeys(out.rows[i])) = Cardinality({v \in VidSet : Resolves(v, i)})

(* C6: extract_table returns; it raises nothing. *)
C6_NeverRaises == pc = "extracted" => out.exc = "none"

IsNumber(v) == v.k = "int" \/ (v.k = "str" /\ IsNumeral(v.s))

IsMissing(v) == v.k \in {"nan", "null"}

NumberOf(v) == IF v.k = "int" THEN v.n ELSE ParseInt(v.s)

(* C8: a column whose non-missing cells all parse holds the numbers they   *)
(* parse to; any other column holds the cells the rows gave it.            *)
C8_Coercion ==
  Returned =>
    /\ out.df.columns = DataFrame(out.rows).columns
    /\ Len(out.df.data) = Len(out.rows)
    /\ \A c \in 1..Len(out.df.columns) :
         LET before == [r \in 1..Len(out.rows) |-> RowGet(out.rows[r], out.df.columns[c])]
             after == [r \in 1..Len(out.rows) |-> out.df.data[r][c]]
         IN IF \A r \in 1..Len(before) : IsMissing(before[r]) \/ IsNumber(before[r])
            THEN \A r \in 1..Len(before) :
                   IF IsMissing(before[r]) THEN after[r] = NaN
                   ELSE after[r] = JInt(NumberOf(before[r]))
            ELSE after = before

(* one frame with a column of numerals, now numbers, beside a column that  *)
(* holds 'n/a' and kept its text                                           *)
C8_Witness ==
  /\ Returned
  /\ \E c, d \in 1..Len(out.df.columns) :
       /\ \A r \in 1..Len(out.rows) :
            /\ RowGet(out.rows[r], out.df.columns[c]).k = "str"
            /\ out.df.data[r][c].k = "int"
       /\ \E r \in 1..Len(out.rows) :
            /\ out.df.data[r][d] = JStr(<<"n", "/", "a">>)
       /\ \E r \in 1..Len(out.rows) :
            /\ out.df.data[r][d].k = "str"
            /\ IsNumeral(out.df.data[r][d].s)

----------------------------------------------------------------------------
(* get_col: the column resolver *)

UpperCase == <<"A", "B", "C", "D", "E", "F", "G", "H", "I", "J", "K", "L", "M",
               "N", "O", "P", "Q", "R", "S", "T", "U", "V", "W", "X", "Y", "Z">>

LowerCase == <<"a", "b", "c", "d", "e", "f", "g", "h", "i", "j", "k", "l", "m",
               "n", "o", "p", "q", "r", "s", "t", "u", "v", "w", "x", "y", "z">>

LowerChar(c) ==
  IF \E j \in 1..26 : UpperCase[j] = c
  THEN LowerCase[CHOOSE j \in 1..26 : UpperCase[j] = c]
  ELSE c

(* s.lower() *)
lower(s) == [j \in 1..Len(s) |-> LowerChar(s[j])]

(* a in b, for strings *)
Contains(a, b) ==
  \E j \in 0..(Len(b) - Len(a)) : SubSeq(b, j + 1, j + Len(a)) = a

(* Variant: the comparison without .lower(). *)
RECURSIVE get_col_exact(_, _)
get_col_exact(cols, sub) ==
  IF cols = <<>> THEN JNull
  ELSE IF Contains(sub, py_str(Head(cols))) THEN Head(cols)
  ELSE get_col_exact(Tail(cols), sub)

(* lines 101-103, over df.columns *)
RECURSIVE get_col(_, _)
get_col(cols, sub) ==
  IF cols = <<>> THEN JNull
  ELSE IF Contains(lower(sub), lower(py_str(Head(cols)))) THEN Head(cols)
  ELSE get_col(Tail(cols), sub)

MaxCols == 3

NominalKVp == <<"N", "o", "m", "i", "n", "a", "l", " ", "k", "V", "p">>

MeasuredHVL == <<"M", "e", "a", "s", "u", "r", "e", "d", " ", "H", "V", "L">>

ColumnNames ==
  { JStr(NominalKVp), JStr(MeasuredHVL), JStr(<<"k", "V", " ", "A", "c", "c">>),
    JStr(<<"m", "R", "/", "m", "A", "s">>) }

Fragments ==
  { <<"k", "v">>, <<"K", "V">>, <<"h", "v", "l">>, <<"m", "a", "s">>, <<"k", "v", "p", "s">>, <<>> }

(* the column lists of a frame: names without repetition *)
ColumnLists ==
  { cs \in UNION { [1..n -> ColumnNames] : n \in 0..MaxCols } :
      \A a, b \in 1..Len(cs) : a # b => cs[a] # cs[b] }

GetCol ==
  /\ pc = "resolve"
  /\ col' = get_col(columns, substring)
  /\ pc' = "resolved"
  /\ UNCHANGED <<session, calls, raw_json, id_map, table_vid_str, table_node, out, dfs,
                 columns, substring>>

InitResolver ==
  /\ authenticated = TRUE
  /\ page = "main"
  /\ pwd = ""
  /\ login_clicked = FALSE
  /\ report_id = ""
  /\ calls = 1
  /\ raw_json = JNull
  /\ id_map = EmptyMap
  /\ table_vid_str = <<>>
  /\ table_node = JNull
  /\ out = NoOut
  /\ dfs = EmptyMap
  /\ pc = "resolve"
  /\ columns \in ColumnLists
  /\ substring \in Fragments
  /\ col = JNull

NextResolver == GetCol

SpecResolver == InitResolver /\ [][NextResolver]_vars

(* the fragment, lower-cased, occurs in the name, lower-cased, at offset j *)
OccursAt(frag, name, j) ==
  /\ j + Len(frag) <= Len(name)
  /\ \A h \in 1..Len(frag) : LowerChar(name[j + h]) = LowerChar(frag[h])

Hits == {c \in 1..Len(columns) :
           \E j \in 0..Len(columns[c].s) : OccursAt(substring, columns[c].s, j)}

(* C7: get_col returns the first column whose lower-cased name contains    *)
(* the lower-cased fragment, and None exactly when no column does.         *)
C7_FirstColumn ==
  pc = "resolved" =>
    IF Hits = {} THEN col = JNull
    ELSE /\ col # JNull
         /\ \E c \in Hits : col = columns[c] /\ \A d \in Hits : c <= d

(* 'kv' on ['Nominal kVp', 'Measured HVL'] gives 'Nominal kVp' *)
C7_Witness ==
  /\ pc = "resolved"
  /\ columns = <<JStr(NominalKVp), JStr(MeasuredHVL)>>
  /\ substring = <<"k", "v">>
  /\ col = JStr(NominalKVp)

----------------------------------------------------------------------------
(* The session: the script runs once per interaction, top to bottom.       *)
(* session_state.authenticated outlives the runs.  The Generate Dashboard  *)
(* handler is modelled in steps (fetch, index, the four extractions,       *)
(* render); the four extractions are taken in any order, of which the      *)
(* code's (lines 126-129) is one.                                          *)

APP_PASSWORD == "secret"

Passcodes == {"", "guess", APP_PASSWORD}

ReportIds == {"", "123456"}

MaxCalls == 2

MaxReportCVs == 2

ReportTagSeqs == UNION { [1..n -> Tags] : n \in 0..MaxReportCVs }

Reverse(xs) == [j \in 1..Len(xs) |-> xs[Len(xs) + 1 - j]]

ChildValues(tags, v) == JList([j \in 1..Len(tags) |-> Entry(j, tags[j], v)])

(* a report with the four configured tables, all referring to one list of  *)
(* value nodes                                                             *)
FourTables(tags, v) ==
  JDict(<<KV("data", JList([j \in 1..Len(tags) |-> ValueNode(j, tags[j], v)])),
          KV("tables", JList(<<
             JDict(<<KV("variableId", JInt(20254)), KV("childValues", ChildValues(tags, v))>>),
             JDict(<<KV("variableId", JStr(TABLE_IDS.LFS_KV)),
                     KV("childValues", JList(Reverse(ChildValues(tags, v).items)))>>),
             JDict(<<KV("variableId", JInt(54936)), KV("childValues", ChildValues(tags, v))>>),
             JDict(<<KV("variableId", JInt(55665))>>) >>))>>)

ReportPayloads ==
  { FourTables(tags, v) :
      tags \in ReportTagSeqs,
      v \in { [names |-> "clean", vals |-> "numstr", refs |-> "own"],
              [names |-> "same_name", vals |-> "int", refs |-> "strref"] } }
    \cup { Report(<<>>, JDict(TableHead \o <<KV("childValues", JNull)>>)) }

(* the end of a run of the handler: its locals are gone *)
Discard ==
  /\ pc' = "idle"
  /\ raw_json' = JNull
  /\ id_map' = EmptyMap
  /\ table_vid_str' = <<>>
  /\ table_node' = JNull
  /\ out' = NoOut
  /\ dfs' = EmptyMap

Init ==
  /\ authenticated = FALSE
  /\ page = "login"
  /\ pwd = ""
  /\ login_clicked = FALSE
  /\ report_id = ""
  /\ calls = 0
  /\ pc = "idle"
  /\ raw_json = JNull
  /\ id_map = EmptyMap
  /\ table_vid_str = <<>>
  /\ table_node = JNull
  /\ out = NoOut
  /\ dfs = EmptyMap
  /\ columns = <<>>
  /\ substring = <<>>
  /\ col = JNull

(* Variant: Login without the comparison with the secret. *)
LoginRun_nocheck(p, clicked) ==
  /\ ~authenticated
  /\ page = "login"
  /\ pwd' = p
  /\ login_clicked' = clicked
  /\ authenticated' = clicked
  /\ page' = IF clicked THEN "rerun" ELSE "login"
  /\ UNCHANGED <<report_id, calls, pc, raw_json, id_map, table_vid_str, table_node,
                 out, dfs, resolver>>

(* lines 12-24: a run of the script in a session that is not authenticated *)
LoginRun(p, clicked) ==
  /\ ~authenticated
  /\ page = "login"
  /\ pwd' = p
  /\ login_clicked' = clicked
  /\ authenticated' = (clicked /\ p = APP_PASSWORD)
  /\ page' = IF clicked /\ p = APP_PASSWORD THEN "rerun" ELSE "login"
  /\ UNCHANGED <<report_id, calls, pc, raw_json, id_map, table_vid_str, table_node,
                 out, dfs, resolver>>

(* the run st.rerun() starts: the gate is passed (line 15), the page below *)
(* it is drawn, no button is pressed                                       *)
Rerun ==
  /\ page = "rerun"
  /\ IF authenticated THEN page' = "main" ELSE page' = "login"
  /\ login_clicked' = FALSE
  /\ UNCHANGED <<authenticated, pwd, report_id, calls, pc, raw_json, id_map,
                 table_vid_str, table_node, out, dfs, resolver>>

(* lines 111-116: a run in which the report id is typed, or Generate is    *)
(* pressed with no report id                                               *)
MainRun(rid) ==
  /\ authenticated
  /\ page = "main"
  /\ pc = "idle"
  /\ report_id' = rid
  /\ UNCHANGED <<authenticated, page, pwd, login_clicked, calls, pc, raw_json, id_map,
                 table_vid_str, table_node, out, dfs, resolver>>

(* lines 113-123: Generate pressed with a report id; get_smari_json is     *)
(* called and returns the payload                                          *)
Generate ==
  /\ authenticated
  /\ page = "main"
  /\ pc = "idle"
  /\ report_id # ""
  /\ calls < MaxCalls
  /\ calls' = calls + 1
  /\ raw_json' \in ReportPayloads
  /\ pc' = "fetched"
  /\ UNCHANGED <<session, id_map, table_vid_str, table_node, out, dfs, resolver>>

(* lines 123, 50, 213: get_smari_json raises ConnectionError *)
GenerateFails ==
  /\ authenticated
  /\ page = "main"
  /\ pc = "idle"
  /\ report_id # ""
  /\ calls < MaxCalls
  /\ calls' = calls + 1
  /\ UNCHANGED <<session, pc, raw_json, id_map, table_vid_str, table_node, out, dfs,
                 resolver>>

(* Variant: id_map.pop in place of id_map.get at line 94. *)
extract_effect_pop(json, idm, t) ==
  LET node == find_t(json, t)
      used == IF Truthy(node) /\ extract_exc(json, t) = "none"
              THEN {py_str(Get(cv, "valueId")) : cv \in Range(IterItems(cvs_of(node)))}
              ELSE {}
  IN [raw_json |-> json, id_map |-> [key \in DOMAIN idm \ used |-> idm[key]]]

(* what a call of extract_table leaves of its arguments: lines 63-98 read  *)
(* raw_json and id_map and assign to neither                               *)
extract_effect(json, idm, t) == [raw_json |-> json, id_map |-> idm]

(* one of lines 126-129; an exception ends the handler at line 213 *)
Extract(name) ==
  /\ pc = "indexed"
  /\ name \notin DOMAIN dfs
  /\ IF extract_table(raw_json, id_map, TABLE_IDS[name]).exc = "none"
     THEN /\ table_vid_str' = TABLE_IDS[name]
          /\ table_node' = find_t(raw_json, TABLE_IDS[name])
          /\ out' = extract_table(raw_json, id_map, TABLE_IDS[name])
          /\ dfs' = (name :> out'.df) @@ dfs
          /\ raw_json' = extract_effect(raw_json, id_map, TABLE_IDS[name]).raw_json
          /\ id_map' = extract_effect(raw_json, id_map, TABLE_IDS[name]).id_map
          /\ pc' = "indexed"
     ELSE Discard
  /\ UNCHANGED <<session, calls, resolver>>

(* lines 131-211: the four frames are drawn *)
Render ==
  /\ pc = "indexed"
  /\ DOMAIN dfs = TableNames
  /\ Discard
  /\ UNCHANGED <<session, calls, resolver>>

Next ==
  \/ \E p \in Passcodes, clicked \in BOOLEAN : LoginRun(p, clicked)
  \/ Rerun
  \/ \E rid \in ReportIds : MainRun(rid)
  \/ Generate
  \/ GenerateFails
  \/ BuildIdMap
  \/ \E name \in TableNames : Extract(name)
  \/ Render

Spec == Init /\ [][Next]_vars

(* C9: while the four extractions run, in any order, the payload and the   *)
(* index stay as they were, and every frame obtained is the one the table  *)
(* gives over the payload and the index as built.                          *)
C9_ReadOnly ==
  /\ [](pc = "indexed" =>
          /\ id_map = build_id_map(raw_json)
          /\ \A name \in DOMAIN dfs :
               dfs[name] = extract_table(raw_json, build_id_map(raw_json), TABLE_IDS[name]).df)
  /\ [][(pc \in {"fetched", "indexed"}) /\ pc' = "indexed" => raw_json' = raw_json]_vars
  /\ [][pc = "indexed" /\ pc' = "indexed" => id_map' = id_map]_vars

(* all four frames obtained, two of them with rows, from one index *)
C9_Witness ==
  /\ pc = "indexed"
  /\ DOMAIN dfs = TableNames
  /\ dfs["SFS_KV"].data # <<>>
  /\ dfs["LFS_KV"].data # <<>>
  /\ dfs["SFS_KV"] # dfs["LFS_KV"]
  /\ DOMAIN id_map # {}

(* C10: the section below the gate runs only in an authenticated session;  *)
(* authenticated starts false, turns true only in a run in which Login is  *)
(* pressed with the configured passcode, and never turns false again.      *)
C10_LoginGate ==
  /\ authenticated = FALSE
  /\ [](page = "main" \/ pc # "idle" \/ calls > 0 => authenticated)
  /\ [][authenticated => authenticated']_vars
  /\ [][~authenticated /\ authenticated' => login_clicked' /\ pwd' = APP_PASSWORD]_vars

(* a report was fetched in a session that logged in with the passcode *)
C10_Witness ==
  /\ authenticated
  /\ pwd = APP_PASSWORD
  /\ calls > 0
  /\ pc = "fetched"

====
